---- MODULE Spec2Model ----
(***************************************************************************)
(* Model of the two front ends of bb_mpu9150:                              *)
(*   console  - src/src/linux-mpu9150/imu.c   (main, read_loop, set_cal)   *)
(*   node     - src/src/mpu9150_node.cpp      (main with the publish loop, *)
(*                                             set_cal)                    *)
(* The driver (mpu9150_init/read/exit, the calibration setters), the       *)
(* sleep call linux_delay_ms and the ROS transport are external; the model *)
(* records the calls made to them and draws their results                  *)
(* nondeterministically.  Option parsing (getopt loop) is outside the      *)
(* model: the model starts with the values the option loop leaves in       *)
(* sample_rate, accel_cal_file and mag_cal_file.                           *)
(***************************************************************************)
EXTENDS Integers, Sequences, FiniteSets, TLC

VARIABLES
    frontend,       \* "console" (imu.c) or "node" (mpu9150_node.cpp)
    ulongBits,      \* width of unsigned long on the build target (32 or 64)
    pc,             \* position of the main thread
    done,           \* int done: the flag written by sigint_handler
    rosOk,          \* what ros::ok() returns (node only; external state)
    sample_rate,    \* int sample_rate of main
    accel_cal_file, \* char *accel_cal_file: NULL or a path
    mag_cal_file,   \* char *mag_cal_file: NULL or a path
    fs,             \* the file system: path -> file contents or NoFile
    loop_delay,     \* unsigned long loop_delay (Unset before it is computed)
    msg,            \* std_msgs::String msg of the publish loop (node only)
    count,          \* int count of the publish loop (node only)
    calls           \* record of the calls made to external code

vars == << frontend, ulongBits, pc, done, rosOk, sample_rate, accel_cal_file,
           mag_cal_file, fs, loop_delay, msg, count, calls >>

----------------------------------------------------------------------------
(* Bounds of the model *)

\* the loop is explored up to this many mpu9150_read calls
MaxReads == 3

\* calibration files of the set_cal specification have at most this many lines
MaxLines == 6

----------------------------------------------------------------------------
(* C arithmetic *)

\* the width of short
ShortBits == 16

Pow2(n) == 2 ^ n

\* conversion of a mathematical integer to a signed type of w bits
ToSigned(x, w) == ((x + Pow2(w - 1)) % Pow2(w)) - Pow2(w - 1)

\* the cast (short)x
ToShort(x) == ToSigned(x, ShortBits)

\* An unsigned value of w bits (w = 32 or 64) is held as its 16-bit limbs,
\* least significant first, so that 2^32 - 1 and 2^64 - 1 can be written
LimbBits == 16

NumLimbs(w) == w \div LimbBits

\* the unsigned w-bit value of n, for 0 <= n < 2^31
UFromNat(n, w) ==
    [i \in 1..NumLimbs(w) |->
        IF i = 1 THEN n % Pow2(LimbBits)
        ELSE IF i = 2 THEN n \div Pow2(LimbBits)
        ELSE 0]

\* the borrow into limb i of a - b
RECURSIVE UBorrow(_, _, _)
UBorrow(a, b, i) ==
    IF i = 1 THEN 0
    ELSE IF a[i - 1] - b[i - 1] - UBorrow(a, b, i - 1) < 0 THEN 1 ELSE 0

\* a - b in unsigned arithmetic of as many limbs as a has (modulo 2^w)
USub(a, b) ==
    [i \in 1..Len(a) |-> (a[i] - b[i] - UBorrow(a, b, i)) % Pow2(LimbBits)]

\* conversion of the int x (|x| < 2^31) to an unsigned type of w bits
UFromInt(x, w) ==
    IF x >= 0 THEN UFromNat(x, w) ELSE USub(UFromNat(0, w), UFromNat(-x, w))

\* widening of the unsigned value a to w bits
UWiden(a, w) == [i \in 1..NumLimbs(w) |-> IF i <= Len(a) THEN a[i] ELSE 0]

\* the width of int and unsigned int
IntBits == 32

\* changed: division by 2 that rounds down
CDiv2Floor(x) == x \div 2

\* C's signed division by 2: truncation toward zero

CDiv2(x) == IF x >= 0 THEN x \div 2 ELSE -((-x) \div 2)

----------------------------------------------------------------------------
(* Calibration files.  A file is a sequence of characters (one-character   *)
(* strings); "\n" ends a line.                                             *)

NoFile == [exists |-> FALSE, data |-> << >>]

File(chars) == [exists |-> TRUE, data |-> chars]

RECURSIVE Lines2Chars(_)
Lines2Chars(ls) ==
    IF ls = << >> THEN << >>
    ELSE Head(ls) \o << "\n" >> \o Lines2Chars(Tail(ls))

IsDigit(c) == c \in {"0", "1", "2", "3", "4", "5", "6", "7", "8", "9"}

DigitVal(c) ==
    CASE c = "0" -> 0 [] c = "1" -> 1 [] c = "2" -> 2 [] c = "3" -> 3
      [] c = "4" -> 4 [] c = "5" -> 5 [] c = "6" -> 6 [] c = "7" -> 7
      [] c = "8" -> 8 [] c = "9" -> 9

\* isspace() of the C locale, over the characters the model uses
IsSpace(c) == c \in {" ", "\n", "\t"}

\* fgets(buff, size, f): the number of characters stored, reading from
\* position pos; at most size - 1 characters, stopping after a newline.
\* 0 means fgets returned NULL (end of file before any character).
RECURSIVE FGetsLen(_, _, _)
FGetsLen(data, pos, room) ==
    IF room = 0 \/ pos > Len(data) THEN 0
    ELSE IF data[pos] = "\n" THEN 1
    ELSE 1 + FGetsLen(data, pos + 1, room - 1)

\* the size argument of fgets(buff, 20, f)
FGetsSize == 20

RECURSIVE AtoiSkipSpace(_, _)
AtoiSkipSpace(buff, i) ==
    IF i <= Len(buff) /\ IsSpace(buff[i]) THEN AtoiSkipSpace(buff, i + 1) ELSE i

RECURSIVE AtoiDigits(_, _, _)
AtoiDigits(buff, i, acc) ==
    IF i <= Len(buff) /\ IsDigit(buff[i])
    THEN AtoiDigits(buff, i + 1, acc * 10 + DigitVal(buff[i]))
    ELSE acc

\* atoi(buff): leading white space, an optional sign, then decimal digits up
\* to the first character that is no digit; 0 when there is no digit.  (The
\* lines of the model have at most five digits, so the value is within int,
\* where atoi is defined.)
atoi(buff) ==
    LET i == AtoiSkipSpace(buff, 1)
        neg == i <= Len(buff) /\ buff[i] = "-"
        j == IF i <= Len(buff) /\ buff[i] \in {"-", "+"} THEN i + 1 ELSE i
        magnitude == AtoiDigits(buff, j, 0)
    IN  IF neg THEN -magnitude ELSE magnitude

\* the number of values set_cal needs
NumCalValues == 6

\* changed: a zero value is taken like any other
ParseStopsNever(v) == FALSE

\* if (val[i] == 0): a zero value stops the loop of set_cal
ParseStopsAt(v) == v = 0

\* The for loop of set_cal: val holds val[0 .. i-1], pos is the file
\* position, n the number of fgets calls made.  The result is the final i,
\* the values and the number of fgets calls.
RECURSIVE ParseLoop(_, _, _, _)
ParseLoop(data, pos, val, n) ==
    IF Len(val) = NumCalValues
    THEN [i |-> Len(val), val |-> val, fgets |-> n]
    ELSE LET k == FGetsLen(data, pos, FGetsSize - 1) IN
         IF k = 0
         THEN [i |-> Len(val), val |-> val, fgets |-> n + 1]
         ELSE LET v == atoi(SubSeq(data, pos, pos + k - 1)) IN
              IF ParseStopsAt(v)
              THEN [i |-> Len(val), val |-> val, fgets |-> n + 1]
              ELSE ParseLoop(data, pos + k, Append(val, v), n + 1)

\* cal.offset[a] and cal.range[a] for axis a in 0..2 (val is 1-based here)
CalOffset(val, a) == ToShort(CDiv2(val[2 * a + 1] + val[2 * a + 2]))

CalRange(val, a) == ToShort(val[2 * a + 2] - CalOffset(val, a))

\* the caldata_t that set_cal fills in
CalData(val) ==
    [offset |-> << CalOffset(val, 0), CalOffset(val, 1), CalOffset(val, 2) >>,
     range  |-> << CalRange(val, 0), CalRange(val, 1), CalRange(val, 2) >>]

\* the default files of set_cal
DefaultMagFile == "./magcal.txt"

DefaultAccelFile == "./accelcal.txt"

\* char *cal_file == NULL
NULL == "NULL"

\* the path set_cal opens
CalPath(mag, cal_file) ==
    IF cal_file # NULL THEN cal_file
    ELSE IF mag # 0 THEN DefaultMagFile ELSE DefaultAccelFile

\* the value set_cal returns when fopen fails
OpenFailRet(cal_file) == IF cal_file # NULL THEN -1 ELSE 0

\* the setter set_cal calls on success
SetterOf(mag) == IF mag # 0 THEN "mag" ELSE "accel"

\* changed: fclose comes after the test of i, so the return -1 of a
\* malformed file leaves the file open
set_cal_leak(mag, cal_file, files) ==
    LET f == files[CalPath(mag, cal_file)] IN
    IF ~f.exists
    THEN [ret |-> OpenFailRet(cal_file), setter |-> "none", cal |-> << >>,
          fopen |-> 1, fgets |-> 0, fclose |-> 0]
    ELSE LET r == ParseLoop(f.data, 1, << >>, 0) IN
         IF r.i # NumCalValues
         THEN [ret |-> -1, setter |-> "none", cal |-> << >>,
               fopen |-> 1, fgets |-> r.fgets, fclose |-> 0]
         ELSE [ret |-> 0, setter |-> SetterOf(mag), cal |-> << CalData(r.val) >>,
               fopen |-> 1, fgets |-> r.fgets, fclose |-> 1]

\* set_cal(mag, cal_file) on file system files: its return value, the
\* setter it calls ("none", "accel" or "mag") with its argument, and the
\* stdio calls it makes.
set_cal(mag, cal_file, files) ==
    LET f == files[CalPath(mag, cal_file)] IN
    IF ~f.exists
    THEN [ret |-> OpenFailRet(cal_file), setter |-> "none", cal |-> << >>,
          fopen |-> 1, fgets |-> 0, fclose |-> 0]
    ELSE LET r == ParseLoop(f.data, 1, << >>, 0) IN
         IF r.i # NumCalValues
         THEN [ret |-> -1, setter |-> "none", cal |-> << >>,
               fopen |-> 1, fgets |-> r.fgets, fclose |-> 1]
         ELSE [ret |-> 0, setter |-> SetterOf(mag), cal |-> << CalData(r.val) >>,
               fopen |-> 1, fgets |-> r.fgets, fclose |-> 1]

----------------------------------------------------------------------------
(* The inputs of a run *)

\* the lines the model's calibration files are made of
L100 == << "1", "0", "0" >>
L300 == << "3", "0", "0" >>
Lm50 == << "-", "5", "0" >>
L50 == << "5", "0" >>
L10 == << "1", "0" >>
L20 == << "2", "0" >>
L7 == << "7" >>
L40000 == << "4", "0", "0", "0", "0" >>
L0 == << "0" >>
Lx == << "x" >>

\* the files of the whole-program specification: no file, a well-formed
\* file, a file of five lines, one with a zero and one with a line that is
\* no number; WideFile, whose values exceed 16 bits, is for set_cal alone
GoodFile == File(Lines2Chars(<< L100, L300, Lm50, L50, L10, L20 >>))
ShortFile == File(Lines2Chars(<< L100, L300, Lm50, L50, L10 >>))
ZeroFile == File(Lines2Chars(<< L100, L300, L0, L50, L10, L20 >>))
TextFile == File(Lines2Chars(<< L100, Lx, Lm50, L50, L10, L20 >>))
WideFile == File(Lines2Chars(<< L40000, L40000, Lm50, L7, L10, L20 >>))

ProgFiles == {NoFile, GoodFile, ShortFile, ZeroFile, TextFile}

\* the files of the set_cal specification: every file of at most MaxLines
\* lines drawn from CalLines
CalLines == {Lm50, L7, L40000, L0}

CalFiles ==
    ProgFiles \cup {WideFile} \cup
    { File(Lines2Chars(ls)) : ls \in UNION { [1..n -> CalLines] : n \in 0..MaxLines } }

\* the ends of the range of a short, and the values next to zero
L32767 == << "3", "2", "7", "6", "7" >>
Lm32768 == << "-", "3", "2", "7", "6", "8" >>
L1 == << "1" >>
Lm1 == << "-", "1" >>

EdgeLines == {Lm32768, L32767, L1, Lm1}

\* every file of six lines drawn from EdgeLines
EdgeFiles ==
    { File(Lines2Chars(ls)) : ls \in [1..NumCalValues -> EdgeLines] }

\* paths given with -a and -m
AccelArg == "a.txt"
MagArg == "m.txt"

Paths == {DefaultAccelFile, DefaultMagFile, AccelArg, MagArg}

\* the file system in which the two paths the run opens hold af and mf
\* (no other path is opened by the program)
FileSystem(apath, af, mpath, mf) ==
    [p \in Paths |-> IF p = CalPath(0, apath) THEN af
                     ELSE IF p = CalPath(1, mpath) THEN mf
                     ELSE NoFile]

\* values of sample_rate: the 0 that read_loop guards against, the default
\* 10 and the upper end 50 of the range of the usage text, and a rate above
\* 500, for which 1000 / sample_rate is less than 2
Rates == {0, 10, 50, 501}

\* outcomes of mpu9150_read: 0 (a fresh sample), not ready, error
ReadOutcomes == {"fresh", "notready", "error"}

Unset == << >>

NoCalls ==
    [sigaction |-> 0, init |-> 0, init_failed |-> FALSE,
     set_cal |-> << >>, delay |-> << >>,
     read |-> 0, fresh |-> 0, readAfterSig |-> 0, print |-> 0,
     ros_info |-> 0, publish |-> << >>, rate_sleep |-> 0, exit |-> 0]

InitProgram(files) ==
    /\ frontend \in {"console", "node"}
    /\ ulongBits \in {32, 64}
    /\ pc = "start"
    /\ done = 0
    /\ rosOk = TRUE
    /\ sample_rate \in Rates
    /\ accel_cal_file \in {NULL, AccelArg}
    /\ mag_cal_file \in {NULL, MagArg}
    /\ \E af \in files, mf \in files :
           fs = FileSystem(accel_cal_file, af, mag_cal_file, mf)
    /\ loop_delay = Unset
    /\ msg = << >>
    /\ count = 0
    /\ calls = NoCalls

Init == InitProgram(ProgFiles)

----------------------------------------------------------------------------
(* The main thread *)

\* register_sig_handler(): sigaction installs sigint_handler, or the process
\* exits
register_sig_handler ==
    /\ pc = "start"
    /\ calls' = [calls EXCEPT !.sigaction = @ + 1]
    /\ \E ok \in BOOLEAN : pc' = IF ok THEN "registered" ELSE "exited"
    /\ UNCHANGED << frontend, ulongBits, done, rosOk, sample_rate,
                    accel_cal_file, mag_cal_file, fs, loop_delay, msg, count >>

\* if (mpu9150_init(i2c_bus, sample_rate, yaw_mix_factor)) exit(1);
\* changed: the return value of mpu9150_init is not looked at
AfterInitIgnored(failed) == "inited"

\* if (mpu9150_init(...)) exit(1);
AfterInit(failed) == IF failed THEN "exited" ELSE "inited"

mpu9150_init ==
    /\ pc = "registered"
    /\ \E failed \in BOOLEAN :
           /\ calls' = [calls EXCEPT !.init = @ + 1, !.init_failed = failed]
           /\ pc' = AfterInit(failed)
    /\ UNCHANGED << frontend, ulongBits, done, rosOk, sample_rate,
                    accel_cal_file, mag_cal_file, fs, loop_delay, msg, count >>

\* changed: main exits when set_cal(0, ...) fails
AfterAccelCalStrict(ret) == IF ret # 0 THEN "exited" ELSE "accel_done"

\* where main continues after set_cal(0, ...) has returned ret: the return
\* value is not looked at

AfterAccelCal(ret) == "accel_done"

\* changed: main exits when set_cal(1, ...) fails
AfterMagCalStrict(ret) == IF ret # 0 THEN "exited" ELSE "mag_done"

\* where main continues after set_cal(1, ...) has returned ret

AfterMagCal(ret) == "mag_done"

\* set_cal(0, accel_cal_file);
SetCalAccel ==
    /\ pc = "inited"
    /\ LET r == set_cal(0, accel_cal_file, fs) IN
         /\ calls' = [calls EXCEPT !.set_cal = Append(@, r)]
         /\ pc' = AfterAccelCal(r.ret)
    /\ UNCHANGED << frontend, ulongBits, done, rosOk, sample_rate,
                    accel_cal_file, mag_cal_file, fs, loop_delay, msg, count >>

\* set_cal(1, mag_cal_file);
SetCalMag ==
    /\ pc = "accel_done"
    /\ LET r == set_cal(1, mag_cal_file, fs) IN
         /\ calls' = [calls EXCEPT !.set_cal = Append(@, r)]
         /\ pc' = AfterMagCal(r.ret)
    /\ UNCHANGED << frontend, ulongBits, done, rosOk, sample_rate,
                    accel_cal_file, mag_cal_file, fs, loop_delay, msg, count >>

\* changed: the operands of the division are swapped
LoopDelaySwapped(fe, rate, bits) ==
    IF fe = "console"
    THEN UWiden(USub(UFromNat(rate \div 1000, IntBits), UFromNat(2, IntBits)), bits)
    ELSE UFromInt((rate \div 1000) - 2, bits)

\* loop_delay = (1000 / sample_rate) - 2;
\* console: sample_rate is the unsigned int parameter of read_loop, so the
\* subtraction is done in unsigned int and widened to unsigned long;
\* node: sample_rate is int, and the int result is converted to unsigned long
\* (the rates of the model are not negative, so int and unsigned int hold
\* the same sample_rate)
LoopDelay(fe, rate, bits) ==
    IF fe = "console"
    THEN UWiden(USub(UFromNat(1000 \div rate, IntBits), UFromNat(2, IntBits)), bits)
    ELSE UFromInt((1000 \div rate) - 2, bits)

\* where the run goes when sample_rate == 0: read_loop returns to main,
\* which calls mpu9150_exit; the node's main returns -1
RateZeroTarget(fe) == IF fe = "console" THEN "loop_exit" ELSE "returned"

\* console: free the paths and call read_loop(sample_rate) up to its printf;
\* node: free the paths, memset, the sample_rate test, loop_delay, printf
EnterLoop ==
    /\ pc = "mag_done"
    /\ IF sample_rate = 0
       THEN /\ pc' = RateZeroTarget(frontend)
            /\ UNCHANGED loop_delay
       ELSE /\ loop_delay' = LoopDelay(frontend, sample_rate, ulongBits)
            /\ pc' = "delay0"
    /\ UNCHANGED << frontend, ulongBits, done, rosOk, sample_rate,
                    accel_cal_file, mag_cal_file, fs, msg, count, calls >>

\* linux_delay_ms(loop_delay); before the loop
InitialDelay ==
    /\ pc = "delay0"
    /\ calls' = [calls EXCEPT !.delay = Append(@, loop_delay)]
    /\ pc' = "loop_top"
    /\ UNCHANGED << frontend, ulongBits, done, rosOk, sample_rate,
                    accel_cal_file, mag_cal_file, fs, loop_delay, msg, count >>

\* changed: the console's loop tests done only at the end of its body
\* (do ... while (!done)), so the first cycle runs whatever done is
LoopRunsFirstCycle(fe, d, ok) ==
    IF fe = "console" THEN (d = 0 \/ calls.read = 0) ELSE ok

\* the loop condition: while (!done) in the console, while (ros::ok()) in
\* the node
LoopRuns(fe, d, ok) == IF fe = "console" THEN d = 0 ELSE ok

\* where the run goes when the loop ends: the console returns from read_loop
\* to main's mpu9150_exit, the node returns 0
LoopEndTarget(fe) == IF fe = "console" THEN "loop_exit" ELSE "returned"

\* the test at the top of the loop; the node then constructs an empty msg
LoopCheck ==
    /\ pc = "loop_top"
    /\ IF LoopRuns(frontend, done, rosOk)
       THEN /\ pc' = "read"
            /\ msg' = << >>
       ELSE /\ pc' = LoopEndTarget(frontend)
            /\ UNCHANGED msg
    /\ UNCHANGED << frontend, ulongBits, done, rosOk, sample_rate,
                    accel_cal_file, mag_cal_file, fs, loop_delay, count, calls >>

\* whether the sample is handed to the sink: mpu9150_read(&mpu) == 0
IsFresh(o) == o = "fresh"

\* if (mpu9150_read(&mpu) == 0)
mpu9150_read ==
    /\ pc = "read"
    /\ calls.read < MaxReads
    /\ \E o \in ReadOutcomes :
         /\ calls' = [calls EXCEPT
                        !.read = @ + 1,
                        !.fresh = IF o = "fresh" THEN @ + 1 ELSE @,
                        !.readAfterSig = IF done # 0 THEN @ + 1 ELSE @]
         /\ pc' = IF IsFresh(o) THEN "dispatch" ELSE "tail"
    /\ UNCHANGED << frontend, ulongBits, done, rosOk, sample_rate,
                    accel_cal_file, mag_cal_file, fs, loop_delay, msg, count >>

\* changed: the sample is dropped when done was set during the read
DispatchUnlessDone ==
    /\ pc = "dispatch"
    /\ IF done # 0
       THEN UNCHANGED << msg, calls >>
       ELSE IF frontend = "console"
            THEN /\ calls' = [calls EXCEPT !.print = @ + 1]
                 /\ UNCHANGED msg
            ELSE /\ msg' = << count >>
                 /\ calls' = [calls EXCEPT !.ros_info = @ + 1]
    /\ pc' = "tail"
    /\ UNCHANGED << frontend, ulongBits, done, rosOk, sample_rate,
                    accel_cal_file, mag_cal_file, fs, loop_delay, count >>

\* the body of the if: print_fused_euler_angles(&mpu) in the console; in the
\* node the payload is formatted with count into msg.data and logged
Dispatch ==
    /\ pc = "dispatch"
    /\ IF frontend = "console"
       THEN /\ calls' = [calls EXCEPT !.print = @ + 1]
            /\ UNCHANGED msg
       ELSE /\ msg' = << count >>
            /\ calls' = [calls EXCEPT !.ros_info = @ + 1]
    /\ pc' = "tail"
    /\ UNCHANGED << frontend, ulongBits, done, rosOk, sample_rate,
                    accel_cal_file, mag_cal_file, fs, loop_delay, count >>

\* console: linux_delay_ms(loop_delay); at the end of the loop body
LoopDelayStep ==
    /\ pc = "tail"
    /\ frontend = "console"
    /\ calls' = [calls EXCEPT !.delay = Append(@, loop_delay)]
    /\ pc' = "loop_top"
    /\ UNCHANGED << frontend, ulongBits, done, rosOk, sample_rate,
                    accel_cal_file, mag_cal_file, fs, loop_delay, msg, count >>

\* node: chatter_pub.publish(msg); ros::spinOnce(); loop_rate.sleep(); ++count;
PublishStep ==
    /\ pc = "tail"
    /\ frontend = "node"
    /\ calls' = [calls EXCEPT !.publish = Append(@, msg),
                              !.rate_sleep = @ + 1]
    /\ count' = count + 1
    /\ pc' = "loop_top"
    /\ UNCHANGED << frontend, ulongBits, done, rosOk, sample_rate,
                    accel_cal_file, mag_cal_file, fs, loop_delay, msg >>

\* console: mpu9150_exit(); return 0;
mpu9150_exit ==
    /\ pc = "loop_exit"
    /\ calls' = [calls EXCEPT !.exit = @ + 1]
    /\ pc' = "returned"
    /\ UNCHANGED << frontend, ulongBits, done, rosOk, sample_rate,
                    accel_cal_file, mag_cal_file, fs, loop_delay, msg, count >>

----------------------------------------------------------------------------
(* The environment *)

\* the process is running with sigint_handler installed
HandlerInstalled == pc \notin {"start", "returned", "exited"}

\* changed: the handler toggles the flag, so a second SIGINT clears it
sigint_handler_toggle ==
    /\ HandlerInstalled
    /\ done' = 1 - done
    /\ UNCHANGED << frontend, ulongBits, pc, rosOk, sample_rate, accel_cal_file,
                    mag_cal_file, fs, loop_delay, msg, count, calls >>

\* SIGINT is delivered: sigint_handler sets done = 1.  It can run between
\* any two steps of the main thread.  done is a plain int; the loop calls
\* external functions in every cycle, so each test of done reads memory.
\* (Before the handler is installed SIGINT ends the process; the claims
\* start from the registration, and so does the signal here.)
sigint_handler ==
    /\ HandlerInstalled
    /\ done' = 1
    /\ UNCHANGED << frontend, ulongBits, pc, rosOk, sample_rate, accel_cal_file,
                    mag_cal_file, fs, loop_delay, msg, count, calls >>

\* node: the ROS runtime is shut down from outside (ros::ok() turns false);
\* SIGINT does not do it, since register_sig_handler has replaced the
\* handler that was installed when the NodeHandle was created
RosShutdown ==
    /\ frontend = "node"
    /\ pc \notin {"returned", "exited"}
    /\ rosOk
    /\ rosOk' = FALSE
    /\ UNCHANGED << frontend, ulongBits, pc, done, sample_rate, accel_cal_file,
                    mag_cal_file, fs, loop_delay, msg, count, calls >>

Next ==
    \/ register_sig_handler
    \/ mpu9150_init
    \/ SetCalAccel
    \/ SetCalMag
    \/ EnterLoop
    \/ InitialDelay
    \/ LoopCheck
    \/ mpu9150_read
    \/ Dispatch
    \/ LoopDelayStep
    \/ PublishStep
    \/ mpu9150_exit
    \/ sigint_handler
    \/ RosShutdown

Spec == Init /\ [][Next]_vars

----------------------------------------------------------------------------
(* set_cal alone: one call of set_cal, for the accelerometer (from the     *)
(* state after mpu9150_init) or for the magnetometer (from the state after *)
(* the accelerometer call found no default file), on every file of         *)
(* CalFiles.                                                               *)

InitCalOn(files) ==
    /\ frontend \in {"console", "node"}
    /\ ulongBits = 32
    /\ done = 0
    /\ rosOk = TRUE
    /\ sample_rate = 10
    /\ loop_delay = Unset
    /\ msg = << >>
    /\ count = 0
    /\ \E f \in files :
         \/ /\ pc = "inited"
            /\ accel_cal_file \in {NULL, AccelArg}
            /\ mag_cal_file = NULL
            /\ fs = FileSystem(accel_cal_file, f, mag_cal_file, NoFile)
            /\ calls = [NoCalls EXCEPT !.sigaction = 1, !.init = 1]
         \/ /\ pc = "accel_done"
            /\ accel_cal_file = NULL
            /\ mag_cal_file \in {NULL, MagArg}
            /\ fs = FileSystem(accel_cal_file, NoFile, mag_cal_file, f)
            /\ calls = [NoCalls EXCEPT !.sigaction = 1, !.init = 1,
                                       !.set_cal = << set_cal(0, NULL, fs) >>]

InitCal == InitCalOn(CalFiles)

NextCal == SetCalAccel \/ SetCalMag

SpecCal == InitCal /\ [][NextCal]_vars

\* set_cal alone on the files whose values are at the ends of a short
InitCalEdge == InitCalOn(EdgeFiles)

SpecCalEdge == InitCalEdge /\ [][NextCal]_vars

----------------------------------------------------------------------------
(* The delay alone: the run from the state after both calibration calls    *)
(* (no calibration file present), for every sample rate the -s option      *)
(* accepts.                                                                *)

\* the range of -s in the usage text: "Range 2-50"
MinSampleRate == 2

MaxSampleRate == 50

InitDelay ==
    /\ frontend \in {"console", "node"}
    /\ ulongBits \in {32, 64}
    /\ pc = "mag_done"
    /\ done = 0
    /\ rosOk = TRUE
    /\ sample_rate \in MinSampleRate..MaxSampleRate
    /\ accel_cal_file = NULL
    /\ mag_cal_file = NULL
    /\ fs = FileSystem(NULL, NoFile, NULL, NoFile)
    /\ loop_delay = Unset
    /\ msg = << >>
    /\ count = 0
    /\ calls = [NoCalls EXCEPT !.sigaction = 1, !.init = 1,
                               !.set_cal = << set_cal(0, NULL, fs),
                                              set_cal(1, NULL, fs) >>]

NextDelay == EnterLoop \/ InitialDelay

SpecDelay == InitDelay /\ [][NextDelay]_vars

----------------------------------------------------------------------------
(* What the claims speak of *)

\* the lines of a file, as the text between newlines
RECURSIVE SplitLines(_, _)
SplitLines(data, cur) ==
    IF data = << >> THEN (IF cur = << >> THEN << >> ELSE << cur >>)
    ELSE IF Head(data) = "\n" THEN << cur >> \o SplitLines(Tail(data), << >>)
    ELSE SplitLines(Tail(data), Append(cur, Head(data)))

FileLines(f) == SplitLines(f.data, << >>)

\* the lines of the model that are integers, and the integer each denotes
IsIntLine(l) ==
    l \in {L100, L300, Lm50, L50, L10, L20, L7, L40000, L0,
           L32767, Lm32768, L1, Lm1}

LineInt(l) ==
    CASE l = L100 -> 100 [] l = L300 -> 300 [] l = Lm50 -> -50 [] l = L50 -> 50
      [] l = L10 -> 10 [] l = L20 -> 20 [] l = L7 -> 7 [] l = L40000 -> 40000
      [] l = L0 -> 0 [] l = L32767 -> 32767 [] l = Lm32768 -> -32768
      [] l = L1 -> 1 [] l = Lm1 -> -1

\* a line that parses to zero: the integer 0, or no integer at all
ParsesToZero(l) == ~IsIntLine(l) \/ LineInt(l) = 0

\* the k-th call of set_cal (1: accelerometer, 2: magnetometer): the path it
\* was given, the file it opens, and whether it has been made
GivenPath(k) == IF k = 1 THEN accel_cal_file ELSE mag_cal_file

OpenedFile(k) ==
    IF GivenPath(k) # NULL THEN fs[GivenPath(k)]
    ELSE IF k = 1 THEN fs["./accelcal.txt"] ELSE fs["./magcal.txt"]

Made(k) == Len(calls.set_cal) >= k

\* a file of six non-zero integer lines
SixNonZeroLines(f) ==
    /\ f.exists
    /\ LET ls == FileLines(f) IN
         /\ Len(ls) = 6
         /\ \A i \in 1..6 : ~ParsesToZero(ls[i])

\* a file with fewer than six lines, or with a line among the first six
\* that parses to zero
Malformed(f) ==
    /\ f.exists
    /\ LET ls == FileLines(f) IN
         \/ Len(ls) < 6
         \/ \E i \in 1..6 : i <= Len(ls) /\ ParsesToZero(ls[i])

\* division by two that truncates toward zero
TruncHalf(x) == IF x >= 0 THEN x \div 2 ELSE -((-x) \div 2)

InShort(x) == -32768 <= x /\ x <= 32767

\* the six values of a file of six integer lines
Vals(f) == LET ls == FileLines(f) IN [i \in 1..6 |-> LineInt(ls[i])]

\* offset_i and range_i of the claim for i in 0..2, without any cast
ExactOffset(v, i) == TruncHalf(v[2 * i + 1] + v[2 * i + 2])

ExactRange(v, i) == v[2 * i + 2] - ExactOffset(v, i)

ExactCal(v) ==
    [offset |-> << ExactOffset(v, 0), ExactOffset(v, 1), ExactOffset(v, 2) >>,
     range  |-> << ExactRange(v, 0), ExactRange(v, 1), ExactRange(v, 2) >>]

\* the k-th call handed exactly the claimed entry to the matching setter
HandedExact(k) ==
    /\ calls.set_cal[k].setter = (IF k = 1 THEN "accel" ELSE "mag")
    /\ calls.set_cal[k].cal = << ExactCal(Vals(OpenedFile(k))) >>

\* the sink's dispatches: console prints, or published messages
SinkDispatches ==
    IF frontend = "console" THEN calls.print ELSE Len(calls.publish)

\* the main thread is between two cycles of the loop, or past the loop
BetweenCycles == pc \in {"loop_top", "loop_exit", "returned"}

\* the main thread is past both calibration calls
PastCalibration ==
    pc \in {"mag_done", "delay0", "loop_top", "read", "dispatch", "tail",
            "loop_exit", "returned"}

\* the path was given explicitly and cannot be opened
ExplicitUnopenable(k) == GivenPath(k) # NULL /\ ~OpenedFile(k).exists

\* a soft calibration error: the default file is absent and no path was
\* given, or the file that was opened is malformed
SoftError(k) ==
    \/ GivenPath(k) = NULL /\ ~OpenedFile(k).exists
    \/ Malformed(OpenedFile(k))

----------------------------------------------------------------------------
(* C1.  Once SIGINT has been delivered (after the handler was registered), *)
(* the sampling loop performs at most one further driver read, in both     *)
(* front ends.  The console loop does (C1_Console); the node's loop tests  *)
(* ros::ok(), never done, and goes on reading.                             *)

C1_AtMostOneReadAfterSigInt == calls.readAfterSig <= 1

C1_Console == frontend = "console" => calls.readAfterSig <= 1

C1_ConsoleStopsAtLoopTop ==
    [][(frontend = "console" /\ pc = "loop_top" /\ done # 0 /\ pc' # pc)
          => pc' = "loop_exit"]_vars

(* C2.  After a successful driver init, whenever the program returns (with *)
(* sample rate 0, or after the loop was cancelled) mpu9150_exit has been   *)
(* called exactly once, in both front ends.  The node never calls it.      *)

C2_ExitOnceBeforeReturn == pc = "returned" => calls.exit = 1

C2_Console == (frontend = "console" /\ pc = "returned") => calls.exit = 1

(* C3.  With sample rate 0 there is never a driver read, a delay or a sink *)
(* dispatch, and the run ends after the driver has been shut down.  The    *)
(* node returns without shutting the driver down.                          *)

C3_RateZeroNoSampling ==
    sample_rate = 0 =>
        /\ calls.read = 0
        /\ calls.delay = << >>
        /\ calls.rate_sleep = 0
        /\ SinkDispatches = 0
        /\ pc = "returned" => calls.exit = 1

C3_Console == frontend = "console" => C3_RateZeroNoSampling

(* C4.  Between cycles, the sink has received exactly one dispatch per     *)
(* read that returned a fresh sample, for the console sink and for the     *)
(* publish sink.  The node publishes a message in every cycle.             *)

C4_OneDispatchPerFreshRead == BetweenCycles => SinkDispatches = calls.fresh

C4_Console ==
    (frontend = "console" /\ BetweenCycles) => SinkDispatches = calls.fresh

(* C5 as stated.  For every calibration file of six non-zero integer       *)
(* lines, set_cal hands the driver offset_i = (val_2i + val_2i+1) / 2 and  *)
(* range_i = val_2i+1 - offset_i, exactly.                                 *)

C5_ExactForEveryFile ==
    \A k \in 1..2 :
        (Made(k) /\ SixNonZeroLines(OpenedFile(k))) => HandedExact(k)

(* C5 amended.  For every calibration file of six non-zero integer lines   *)
(* whose values lie in the signed 16-bit range, set_cal hands the matching *)
(* setter offset_i = (val_2i + val_2i+1) / 2, the division truncating      *)
(* toward zero, and range_i = val_2i+1 - offset_i, exactly.                *)

C5_ExactWithinShort ==
    \A k \in 1..2 :
        ( /\ Made(k)
          /\ SixNonZeroLines(OpenedFile(k))
          /\ LET v == Vals(OpenedFile(k)) IN \A i \in 1..6 : InShort(v[i]) )
        => HandedExact(k)

\* the scenario of the claim: 100, 300, -50, 50, 10, 20 for the accelerometer
C5_Witness ==
    /\ Made(1)
    /\ OpenedFile(1) = GoodFile
    /\ calls.set_cal[1].setter = "accel"
    /\ calls.set_cal[1].cal =
         << [offset |-> << 200, 0, 15 >>, range |-> << 100, 50, 5 >>] >>

(* C6.  If the calibration file has fewer than six lines, or one of its    *)
(* first six lines parses to zero (a line that is no integer included),    *)
(* set_cal returns -1 and calls neither setter.                            *)

C6_MalformedFileRejected ==
    \A k \in 1..2 :
        (Made(k) /\ Malformed(OpenedFile(k)))
        => (calls.set_cal[k].ret = -1 /\ calls.set_cal[k].setter = "none")

C6_Witness ==
    \E k \in 1..2 :
        /\ Made(k)
        /\ OpenedFile(k).exists
        /\ LET ls == FileLines(OpenedFile(k)) IN
             /\ Len(ls) = 6
             /\ \A i \in 1..5 : ~ParsesToZero(ls[i])
             /\ ParsesToZero(ls[6])
        /\ calls.set_cal[k].ret = -1

(* C7.  When a calibration path is given explicitly and the file cannot be *)
(* opened, no driver read is ever performed in that run.  set_cal returns  *)
(* -1, main does not look at it and goes on to the loop.                   *)

C7_NoReadAfterExplicitOpenFailure ==
    (ExplicitUnopenable(1) \/ ExplicitUnopenable(2)) => calls.read = 0

(* C8.  The calibration slots are independent: the process does not exit   *)
(* once calibration loading has begun, so the magnetometer load is made    *)
(* whatever the accelerometer load returned, and the magnetometer setter   *)
(* is called exactly when the magnetometer file is well formed.            *)

C8_SlotsIndependent ==
    /\ Made(1) => pc # "exited"
    /\ PastCalibration =>
         /\ Made(2)
         /\ calls.set_cal[2].setter \in {"mag", "none"}
         /\ calls.set_cal[2].setter = "mag" <=>
              ( /\ OpenedFile(2).exists
                /\ LET ls == FileLines(OpenedFile(2)) IN
                     /\ Len(ls) >= 6
                     /\ \A i \in 1..6 : ~ParsesToZero(ls[i]) )

C8_Witness ==
    /\ PastCalibration
    /\ ExplicitUnopenable(1)
    /\ calls.set_cal[1].ret = -1
    /\ calls.set_cal[2].setter = "mag"

(* C9.  A soft calibration error (default file absent when no path was     *)
(* given, fewer than six lines, a line that is no number, a zero) is not   *)
(* fatal: in every step, the setter of a slot with a soft error has not    *)
(* been called, the process has not exited, and the step the main thread   *)
(* takes after the calibration calls leads into read_loop (with a non-zero *)
(* rate, to the delay before its loop).                                    *)

C9_SoftErrorNotFatal ==
    [][ \A k \in 1..2 :
          Made(k)' =>
              \/ /\ calls'.set_cal[k].setter = "none"
                 /\ pc' # "exited"
                 /\ (pc = "mag_done" /\ pc' # pc /\ sample_rate # 0) => pc' = "delay0"
              \/ ~SoftError(k)
      ]_vars

C9_Witness ==
    /\ SoftError(1)
    /\ SoftError(2)
    /\ calls.set_cal = << [ret |-> 0, setter |-> "none", cal |-> << >>,
                           fopen |-> 1, fgets |-> 0, fclose |-> 0],
                          [ret |-> -1, setter |-> "none", cal |-> << >>,
                           fopen |-> 1, fgets |-> 6, fclose |-> 1] >>
    /\ pc = "dispatch"

(* C10.  For every non-zero sample rate, the delay computed and passed to  *)
(* the sleep call is max(0, floor(1000 / rate) - 2) milliseconds.  Above   *)
(* 500 Hz the code's subtraction wraps around instead.                     *)

C10_UpTo500 ==
    LET d == (1000 \div sample_rate) - 2
    IN  (sample_rate # 0 /\ sample_rate <= 500) =>
            /\ loop_delay # Unset => loop_delay = UFromNat(d, ulongBits)
            /\ \A i \in 1..Len(calls.delay) : calls.delay[i] = UFromNat(d, ulongBits)

(* C11.  Over the sample rates 2..50 the computed loop delay is not        *)
(* negative (read as a signed value of its width, i.e. the subtraction did *)
(* not wrap), and it does not increase with the rate: every rate of the    *)
(* range that is at least the run's rate gives a delay that is at most the *)
(* run's delay.                                                            *)

\* a <= b for unsigned values of the same width, from limb i downwards
RECURSIVE ULeqFrom(_, _, _)
ULeqFrom(a, b, i) ==
    IF i = 0 THEN TRUE
    ELSE IF a[i] # b[i] THEN a[i] < b[i]
    ELSE ULeqFrom(a, b, i - 1)

ULeq(a, b) == ULeqFrom(a, b, Len(a))

\* the sign bit of the unsigned value is clear
UNonNegative(a) == a[Len(a)] < 32768

C11_DelayNonNegativeMonotone ==
    loop_delay # Unset =>
        /\ UNonNegative(loop_delay)
        /\ \A r \in MinSampleRate..MaxSampleRate :
               r >= sample_rate =>
                   ULeq(LoopDelay(frontend, r, ulongBits), loop_delay)

\* the run at 2 Hz has slept 498 ms, more than the 18 ms of 50 Hz
C11_Witness ==
    /\ sample_rate = 2
    /\ calls.delay = << UFromNat(498, ulongBits) >>
    /\ LoopDelay(frontend, 50, ulongBits) = UFromNat(18, ulongBits)

(* C12.  When the driver initialisation fails the process has exited, and  *)
(* it exited at once: no set_cal call and so no calibration setter, no     *)
(* delay, no driver read, no dispatch, the loop delay never computed.  It  *)
(* holds in every state after the failure, so nothing follows the exit.    *)
C12_InitFailureExitsAtOnce ==
    calls.init_failed =>
        /\ pc = "exited"
        /\ calls.set_cal = << >>
        /\ calls.delay = << >>
        /\ loop_delay = Unset
        /\ calls.read = 0
        /\ calls.print = 0
        /\ calls.publish = << >>
        /\ calls.exit = 0

C12_Witness ==
    /\ calls.init_failed
    /\ calls.init = 1
    /\ calls.sigaction = 1
    /\ pc = "exited"

(* C13.  Every driver read of the loop is preceded by its own sleep of the *)
(* one delay computed from the sample rate before the loop: when the main  *)
(* thread is about to read, one more linux_delay_ms(loop_delay) has been   *)
(* made than reads; after the read the two counts are equal; and every     *)
(* sleep was of the value computed from the rate, which is still the value *)
(* of loop_delay.                                                          *)

\* the main thread is in the loop body, the read of this cycle made
ReadMade == pc \in {"dispatch", "tail"}

\* every linux_delay_ms so far was called with the delay of the sample rate
OneFixedDelay ==
    /\ loop_delay # Unset =>
           loop_delay = LoopDelay(frontend, sample_rate, ulongBits)
    /\ \A i \in 1..Len(calls.delay) : calls.delay[i] = loop_delay

\* each read has its own linux_delay_ms(loop_delay) before it
DelayBeforeEachRead ==
    /\ pc = "read" => Len(calls.delay) = calls.read + 1
    /\ ReadMade => Len(calls.delay) = calls.read

\* C13 as stated: in both front ends
C13_FixedDelayBeforeEveryRead == OneFixedDelay /\ DelayBeforeEachRead

\* what the code does: in the console every read has its own sleep of the
\* fixed delay before it; in the node only the first read has, and every
\* later read has a loop_rate.sleep() before it instead
C13_FixedDelayInConsole ==
    /\ OneFixedDelay
    /\ frontend = "console" => DelayBeforeEachRead
    /\ frontend = "node" =>
           /\ (pc = "read" \/ ReadMade) => Len(calls.delay) = 1
           /\ pc = "read" => calls.rate_sleep = calls.read
           /\ ReadMade => calls.rate_sleep = calls.read - 1

(* C14.  A fresh read is always followed by its dispatch, whatever the     *)
(* interrupt flag is by then: the only step the main thread takes after a  *)
(* fresh read is the dispatch of that sample, and whenever the main thread *)
(* is between two cycles or past the loop, as many samples have been       *)
(* dispatched as fresh reads were made.                                    *)

\* the samples handed to the sink's formatting: printed, or written to msg
SamplesFormatted ==
    IF frontend = "console" THEN calls.print ELSE calls.ros_info

\* the samples that have left the program: printed, or published in a msg
SamplesDispatched ==
    IF frontend = "console"
    THEN calls.print
    ELSE Cardinality({i \in 1..Len(calls.publish) : calls.publish[i] # << >>})

C14_FreshReadIsDispatched ==
    [][/\ (pc = "dispatch" /\ pc' # pc) =>
              /\ pc' = "tail"
              /\ SamplesFormatted' = SamplesFormatted + 1
       /\ BetweenCycles' => SamplesDispatched' = calls'.fresh]_vars

\* the console's only read was made with the flag already set, it was
\* fresh, and it was printed before the loop ended
C14_Witness ==
    /\ frontend = "console"
    /\ done = 1
    /\ calls.read = 1
    /\ calls.readAfterSig = 1
    /\ calls.fresh = 1
    /\ calls.print = 1
    /\ pc = "returned"

(* C15.  Each calibration setter is called at most once in a run, only     *)
(* after a successful mpu9150_init, and before the first driver read: no   *)
(* step that calls a setter leaves a read behind it, and no step taken     *)
(* once the loop has started calls one.                                    *)

\* how many times the setter has been called so far
SetterCalls(name) ==
    Cardinality({k \in 1..Len(calls.set_cal) : calls.set_cal[k].setter = name})

\* the main thread has reached the loop
LoopStarted ==
    pc \in {"loop_top", "read", "dispatch", "tail", "loop_exit", "returned"}

C15_SettersOnceBeforeFirstRead ==
    /\ [](/\ SetterCalls("accel") <= 1
          /\ SetterCalls("mag") <= 1
          /\ (SetterCalls("accel") + SetterCalls("mag") > 0) =>
                 (calls.init = 1 /\ ~calls.init_failed))
    /\ [][/\ calls'.set_cal # calls.set_cal =>
                 (calls.read = 0 /\ calls'.read = 0 /\ ~LoopStarted')
          /\ LoopStarted => calls'.set_cal = calls.set_cal]_vars

\* both setters were called, once each, and the loop has read twice since
C15_Witness ==
    /\ SetterCalls("accel") = 1
    /\ SetterCalls("mag") = 1
    /\ calls.read = 2
    /\ calls.init = 1

(* C16.  done is 0 when the program starts, and no step of the program or *)
(* of the handler takes it from non-zero back to 0: once set it stays set. *)
C16_DoneStaysSet ==
    /\ done = 0
    /\ [][done # 0 => done' = done]_vars

\* the flag was set, the main thread has gone on (a read, the end of the
\* loop, the return) and the flag is still set
C16_Witness ==
    /\ done = 1
    /\ calls.readAfterSig = 1
    /\ pc = "returned"

(* C17.  In the node the counter values carried by the sample payloads     *)
(* published so far are consecutive: each payload after the first carries  *)
(* the value of the payload before it plus one.                            *)

\* a published message that carries a sample
HasPayload(m) == m # << >>

\* the counter values of the published sample payloads, in publishing order
PayloadCounters ==
    LET p == SelectSeq(calls.publish, HasPayload)
    IN  [i \in 1..Len(p) |-> p[i][1]]

C17_PayloadCountersConsecutive ==
    frontend = "node" =>
        \A i \in 1..(Len(PayloadCounters) - 1) :
            PayloadCounters[i + 1] = PayloadCounters[i] + 1

\* what the code does: count is the number of publish calls made, with or
\* without a payload, so the payloads' values increase, with gaps
C17_CountsPublishCalls ==
    frontend = "node" =>
        /\ BetweenCycles => count = Len(calls.publish)
        /\ \A i \in 1..(Len(PayloadCounters) - 1) :
               PayloadCounters[i + 1] > PayloadCounters[i]
        /\ \A i \in 1..Len(calls.publish) :
               HasPayload(calls.publish[i]) => calls.publish[i] = << i - 1 >>

(* C18.  For six non-zero values that each lie in [-32768, 32767], the     *)
(* three offsets and the three ranges of the formulas, computed without    *)
(* any cast and with the division truncating toward zero, lie in           *)
(* [-32768, 32767] too, and the entry set_cal hands over, computed with    *)
(* the casts to short, holds exactly those values.                         *)
C18_CastsChangeNothing ==
    \A k \in 1..2 :
        ( /\ Made(k)
          /\ SixNonZeroLines(OpenedFile(k))
          /\ LET v == Vals(OpenedFile(k)) IN \A i \in 1..6 : InShort(v[i]) )
        => LET e == ExactCal(Vals(OpenedFile(k))) IN
             /\ \A i \in 1..3 : InShort(e.offset[i]) /\ InShort(e.range[i])
             /\ calls.set_cal[k].cal = << e >>

\* the two ends of the range together, the upper end twice, the lower twice
C18_Witness ==
    /\ Made(2)
    /\ OpenedFile(2) = File(Lines2Chars(<< Lm32768, L32767, L32767, L32767,
                                           Lm32768, Lm32768 >>))
    /\ calls.set_cal[2].setter = "mag"
    /\ calls.set_cal[2].cal =
           << [offset |-> << 0, 32767, -32768 >>, range |-> << 32767, 0, 0 >>] >>

(* C19.  In the console, when SIGINT has been delivered after the handler  *)
(* was registered and before the loop's first test of the flag, every      *)
(* later step leaves the run without a driver read and without a dispatch, *)
(* and the run that returns has called mpu9150_exit once.                  *)

\* the console's flag is set and the main thread has not passed the first
\* test of the flag: no read has been made and none is under way
EarlySigInt ==
    /\ frontend = "console"
    /\ done # 0
    /\ calls.read = 0
    /\ pc \notin {"read", "dispatch", "tail"}

C19_EarlySigIntNoReads ==
    [][EarlySigInt =>
           /\ EarlySigInt'
           /\ calls'.print = 0
           /\ pc' = "returned" => calls'.exit = 1]_vars

\* SIGINT came before the first test: the loop was reached (the initial
\* delay was slept), nothing was read or printed, the driver was shut down
C19_Witness ==
    /\ EarlySigInt
    /\ Len(calls.delay) = 1
    /\ calls.print = 0
    /\ calls.exit = 1
    /\ pc = "returned"

(* C20.  A set_cal call whose fopen succeeded has closed the file exactly  *)
(* once when it returns, whether it succeeded, ran out of lines or met a   *)
(* line that parses to zero; and it has read no line after the first       *)
(* invalid one: it made as many fgets calls as the position of the first   *)
(* line that parses to zero among the first six, or, without such a line,  *)
(* six calls, or one call more than the file has lines (the call that      *)
(* finds the end of the file).                                             *)

\* the lines among the first six of ls that parse to zero
ZeroLines(ls) ==
    {i \in 1..6 : i <= Len(ls) /\ ParsesToZero(ls[i])}

Least(S) == CHOOSE i \in S : \A j \in S : i <= j

\* the fgets calls of a parse that stops at the first invalid line
ReadsUntilInvalid(ls) ==
    IF ZeroLines(ls) # {} THEN Least(ZeroLines(ls))
    ELSE IF Len(ls) >= 6 THEN 6
    ELSE Len(ls) + 1

C20_ClosedOnceAndStopsAtInvalid ==
    \A k \in 1..2 :
        (Made(k) /\ OpenedFile(k).exists) =>
            /\ calls.set_cal[k].fopen = 1
            /\ calls.set_cal[k].fclose = 1
            /\ calls.set_cal[k].fgets = ReadsUntilInvalid(FileLines(OpenedFile(k)))

\* the file with a zero on its third line: three lines read, the file
\* closed, -1 returned
C20_Witness ==
    /\ Made(1)
    /\ OpenedFile(1) = ZeroFile
    /\ calls.set_cal[1].ret = -1
    /\ calls.set_cal[1].fgets = 3
    /\ calls.set_cal[1].fclose = 1

====
